---- MODULE Spec2Model ----
(***************************************************************************)
(* Lifecycle of the factor graph of spectre: CustomFactor.pre_compute_,    *)
(* compute_ and clean_up_ (reference counted cache, per-node CUDA streams) *)
(* over a DAG of factors, driven by an engine that calls them on roots.    *)
(***************************************************************************)
EXTENDS Integers, Sequences, FiniteSets, TLC

\* ------------------------------------------------------------------ bounds
MaxRuns == 2        \* engine runs explored
MaxCalls == 4       \* engine calls (pre_compute_/compute_/clean_up_) in all
MaxStreamCalls == 4 \* engine calls in all while the device runs asynchronously

\* ------------------------------------------------------------------ values
Nodes == 1..4
Engine == 0                     \* the caller of a root
None == <<>>                    \* Python None (tensor, stream)
MainLane == <<0, 0>>            \* the stream the engine passes to a root
DataTensor(n) == <<n, 0, 0>>    \* ColumnDataFactor._data of node n

\* the factor graphs explored: kind, inputs (0 is a non-factor operand), mask
Diamond ==
  [kind   |-> [n \in Nodes |-> IF n = 1 THEN "data" ELSE "custom"],
   inputs |-> <<  <<>>, <<1>>, <<2, 0>>, <<3, 2>>  >>,
   mask   |-> [n \in Nodes |-> 0]]

Masked ==
  [kind   |-> [n \in Nodes |-> IF n = 1 THEN "data" ELSE "custom"],
   inputs |-> <<  <<>>, <<1>>, <<1>>, <<3>>  >>,
   mask   |-> [n \in Nodes |-> IF n \in {3, 4} THEN 2 ELSE 0]]

Graphs == {Diamond, Masked}
Roots == {3, 4}                 \* factors the engine was given
KeepSets == {{}, {3}}           \* which factors have _keep_cache set

VARIABLES
  kind, inputs, mask, keep_cache,          \* the graph (fixed after Init)
  ref_count, cache, cache_stream,          \* CustomFactor._ref_count, _cache, _cache_stream
  clean_required, mask_out, engine, data,  \* _clean_required, _mask_out, _engine, _data
  lanes,                                   \* CUDA streams with pending work
  run, calls, use_lane,                    \* engine: run number, calls made, streams in use
  kernel_count,                            \* calls of compute() per node in this run
  log,                                     \* calls made inside the last engine call
  hist,                                    \* per-run observations derived from the logs
  win, total_backwards, force_delay,       \* CustomFactor.win, _total_backwards, _force_delay
  data_delay,                              \* ColumnDataFactor._should_delay
  keys, layout,                            \* ParallelGroupBy object(s) and the keys they were built from
  answer                                   \* the last call outside the run lifecycle and its result

graph == <<kind, inputs, mask, keep_cache>>
heap == <<ref_count, cache, cache_stream, clean_required, mask_out, engine, data>>
conf == <<win, total_backwards, force_delay, data_delay>>
arrays == <<keys, layout>>
vars == <<kind, inputs, mask, keep_cache, ref_count, cache, cache_stream,
          clean_required, mask_out, engine, data, lanes, run, calls, use_lane,
          kernel_count, log, hist, win, total_backwards, force_delay, data_delay,
          keys, layout, answer>>

\* ------------------------------------------------------------------ log
Ev(op, node, caller, ref, lane, val, tag) ==
  [op |-> op, node |-> node, caller |-> caller, ref |-> ref, lane |-> lane,
   val |-> val, tag |-> tag, args |-> <<>>, held |-> <<>>]

Emit(h, e) == [h EXCEPT !.log = Append(@, e)]

\* the mutable state threaded through one engine call
Heap ==
  [ref |-> ref_count, cache |-> cache, cstream |-> cache_stream,
   creq |-> clean_required, mout |-> mask_out, eng |-> engine, data |-> data,
   lanes |-> lanes, nk |-> kernel_count, log |-> <<>>]

IsFactor(x) == x \in Nodes      \* isinstance(upstream, BaseFactor)

\* ------------------------------------------------------------------ pre_compute_
AlreadyPreparedNever(c) == FALSE
AlreadyPrepared(c) == c > 1     \* already pre_compute_ed, skip child

KeepExtraRefNone(k) == 0
KeepExtraRef(k) == IF k THEN 1 ELSE 0   \* ref count +1 so the cache will not cleanup

RECURSIVE pre_compute_(_, _, _), PreUpstreams(_, _, _)

DataPreCompute(h, n, caller) ==
  Emit([Emit(h, Ev("pre", n, caller, 0, None, None, "data"))
          EXCEPT !.eng[n] = TRUE, !.data[n] = TRUE,
                 !.creq[n] = IF h.data[n] THEN @ ELSE TRUE],
       Ev("pre_end", n, caller, 0, None, None, "data"))

\* for upstream in self.inputs: upstream.pre_compute_(engine, start, end)
PreUpstreams(h, n, i) ==
  IF i > Len(inputs[n]) THEN h
  ELSE IF IsFactor(inputs[n][i])
       THEN PreUpstreams(pre_compute_(h, inputs[n][i], n), n, i + 1)
       ELSE PreUpstreams(h, n, i + 1)

PreMask(h, n) == IF mask[n] # 0 THEN pre_compute_(h, mask[n], n) ELSE h

\* super().pre_compute_; _clean_required = True; _ref_count += 1
PreEnter(h, n, caller) ==
  [Emit(h, Ev("pre", n, caller, h.ref[n], None, None, "custom"))
     EXCEPT !.eng[n] = TRUE, !.creq[n] = TRUE, !.ref[n] = @ + 1]

PreLeave(h, n, caller, tag) ==
  Emit(h, Ev("pre_end", n, caller, h.ref[n], None, None, tag))

PreFirst(h, n, caller) ==
  PreLeave([PreMask(PreUpstreams(h, n, 1), n)
              EXCEPT !.ref[n] = @ + KeepExtraRef(keep_cache[n])],
           n, caller, "first")

PreBody(h, n, caller) ==
  IF AlreadyPrepared(h.ref[n]) THEN PreLeave(h, n, caller, "skip")
  ELSE PreFirst(h, n, caller)

pre_compute_(h, n, caller) ==
  IF kind[n] = "data" THEN DataPreCompute(h, n, caller)
  ELSE PreBody(PreEnter(h, n, caller), n, caller)

\* ------------------------------------------------------------------ clean_up_
CleanUpSkippedNever(required, force) == FALSE
CleanUpSkippedUnlessForced(required, force) == ~force
CleanUpSkipped(required, force) == ~required /\ ~force

ClearsCacheOnForce(k, force) == force
ClearsCache(k, force) == ~k \/ force

RECURSIVE clean_up_(_, _, _, _), CleanUpstreams(_, _, _, _)

DataCleanUp(h, n, force, caller) ==
  Emit([Emit(h, Ev("cleanup", n, caller, 0, None, None, "data"))
          EXCEPT !.eng[n] = FALSE, !.data[n] = FALSE, !.creq[n] = FALSE],
       Ev("cleanup_end", n, caller, 0, None, None, "data"))

\* for upstream in self.inputs: upstream.clean_up_(force)
CleanUpstreams(h, n, force, i) ==
  IF i > Len(inputs[n]) THEN h
  ELSE IF IsFactor(inputs[n][i])
       THEN CleanUpstreams(clean_up_(h, inputs[n][i], force, n), n, force, i + 1)
       ELSE CleanUpstreams(h, n, force, i + 1)

CleanMask(h, n, force) == IF mask[n] # 0 THEN clean_up_(h, mask[n], force, n) ELSE h

\* super().clean_up_(force)
CleanEnter(h, n, force, caller) ==
  [Emit(h, Ev("cleanup", n, caller, h.ref[n], None, None,
              IF force THEN "force" ELSE "soft"))
     EXCEPT !.eng[n] = FALSE]

CleanLeave(h, n, caller, tag) ==
  Emit(h, Ev("cleanup_end", n, caller, h.ref[n], None, None, tag))

\* _clean_required = False; cache and stream dropped; _ref_count = 0
CleanReset(h, n, force) ==
  [h EXCEPT !.creq[n] = FALSE,
            !.cache[n] = IF ClearsCache(keep_cache[n], force) THEN None ELSE @,
            !.cstream[n] = IF ClearsCache(keep_cache[n], force) THEN None ELSE @,
            !.ref[n] = 0]

CleanBody(h, n, force, caller) ==
  IF CleanUpSkipped(h.creq[n], force) THEN CleanLeave(h, n, caller, "skip")
  ELSE CleanLeave(CleanMask(CleanUpstreams(CleanReset(h, n, force), n, force, 1), n, force),
                  n, caller, "done")

clean_up_(h, n, force, caller) ==
  IF kind[n] = "data" THEN DataCleanUp(h, n, force, caller)
  ELSE CleanBody(CleanEnter(h, n, force, caller), n, force, caller)

\* ------------------------------------------------------------------ streams
\* A stream is a FIFO of pending commands plus the number already executed.
\* A stream with nothing pending is dropped; every event recorded on it is done.
Cmd(c, t, reads, ev) == [c |-> c, t |-> t, reads |-> reads, ev |-> ev]

Total(ls, l) == IF l \in DOMAIN ls THEN ls[l].done + Len(ls[l].q) ELSE 0

EventDone(ls, ev) == IF ev[1] \in DOMAIN ls THEN ls[ev[1]].done >= ev[2] ELSE TRUE

Enqueue(h, l, cmd) ==
  [h EXCEPT !.lanes = IF l \in DOMAIN h.lanes
                      THEN [h.lanes EXCEPT ![l].q = Append(@, cmd)]
                      ELSE (l :> [q |-> <<cmd>>, done |-> 0]) @@ h.lanes]

\* with torch.cuda.stream(l): ... when there is a stream, else nothing to queue
EnqueueOn(h, l, cmd) == IF l # None THEN Enqueue(h, l, cmd) ELSE h

\* streams some pending wait, cache or queue still refers to
WaitedLanes(ls) ==
  UNION {{ls[l].q[i].ev[1] : i \in {j \in 1..Len(ls[l].q) : ls[l].q[j].c = "wait"}} :
         l \in DOMAIN ls}

UsedLanes(h) == DOMAIN h.lanes \cup {h.cstream[m] : m \in Nodes} \cup WaitedLanes(h.lanes)

\* torch.cuda.Stream(device=...): a stream object distinct from every live one
NewStream(h, n) ==
  <<n, CHOOSE j \in 1..8 : <<n, j>> \notin UsedLanes(h) /\
                            \A k \in 1..(j - 1) : <<n, k>> \in UsedLanes(h)>>

\* a tensor is materialized once no stream has the kernel producing it pending
Pending(ls, t) ==
  \E l \in DOMAIN ls : \E i \in 1..Len(ls[l].q) :
     ls[l].q[i].c = "kernel" /\ ls[l].q[i].t = t

\* the waiter stream blocks until event ev has happened
WaitFor(h, waiter, ev) ==
  IF EventDone(h.lanes, ev) THEN h ELSE Enqueue(h, waiter, Cmd("wait", None, {}, ev))

\* waiter.wait_event(producer.record_event())
WaitEvent(h, waiter, producer) ==
  WaitFor(Emit(h, Ev("wait", 0, 0, 0, waiter, producer, "wait")), waiter,
          <<producer, Total(h.lanes, producer)>>)

\* ------------------------------------------------------------------ compute_
RefCountErrorLate(c) == c < -1
RefCountError(c) == c < 0        \* raise ValueError('Reference count error ...')

ReleasesCacheNever(c) == FALSE
ReleasesCache(c) == c = 0        \* cached path: last consumer drops the cache

StoresInCacheNever(c) == FALSE
StoresInCacheAlways(c) == TRUE
StoresInCache(c) == c > 0        \* more consumers remain

OpensLaneIfShared(down, c) == down # None /\ c > 0
OpensLane(down, c) == down # None      \* if down_stream: self_stream = torch.cuda.Stream(...)

RecordsLane(c) == c > 0          \* if self._ref_count > 0: self._cache_stream = self_stream

HandshakeNever(self_stream) == FALSE
Handshake(self_stream) == self_stream # None   \* down_stream.wait_event(self_stream.record_event())

Result(h, ret, ok) == [h |-> h, ret |-> ret, ok |-> ok]

\* return ret
Return(h, n, down, caller, ret, tag) ==
  Result(Emit(h, [Ev("ret", n, caller, h.ref[n], down, ret, tag)
                    EXCEPT !.held = h.cache[n]]),
         ret, TRUE)

\* an exception leaves the call
Raise(h, n, down, caller, tag) ==
  Result(Emit(h, Ev("raise", n, caller, h.ref[n], down, None, tag)), None, FALSE)

\* what compute() receives: a formatted upstream output or an operand as it is
Formatted(out, mout) == [k |-> "formatted", src |-> out, msk |-> mout, val |-> 0]
Operand(x) == [k |-> "operand", src |-> None, msk |-> None, val |-> x]
ReadsOf(args) == UNION {{args[i].src, args[i].msk} \ {None} : i \in 1..Len(args)}

RECURSIVE compute_(_, _, _, _), ComputeUpstreams(_, _, _, _, _, _)

DataCompute(h, n, down, caller) ==
  Return(Emit(h, Ev("compute", n, caller, 0, down, None, "data")), n, down, caller,
         IF h.data[n] THEN DataTensor(n) ELSE None, "data")

\* out = self._format_input(upstream, out, self._mask, mask_out); inputs.append(out)
AfterUpstream(r, n, self_stream, mout, i, acc) ==
  IF ~r.ok THEN r
  ELSE ComputeUpstreams(
         EnqueueOn(r.h, self_stream, Cmd("format", None, {r.ret, mout} \ {None}, None)),
         n, self_stream, mout, i + 1, Append(acc, Formatted(r.ret, mout)))

\* for upstream in self.inputs: out = upstream.compute_(self_stream)
ComputeUpstreams(h, n, self_stream, mout, i, acc) ==
  IF i > Len(inputs[n]) THEN Result(h, acc, TRUE)
  ELSE IF IsFactor(inputs[n][i])
       THEN AfterUpstream(compute_(h, inputs[n][i], self_stream, n),
                          n, self_stream, mout, i, acc)
       ELSE ComputeUpstreams(h, n, self_stream, mout, i + 1,
                             Append(acc, Operand(inputs[n][i])))

\* ret = self._cache; the last consumer drops cache and stream
CachedRelease(h, n, down, caller, ret) ==
  Return([h EXCEPT !.cache[n] = IF ReleasesCache(h.ref[n]) THEN None ELSE @,
                   !.cstream[n] = IF ReleasesCache(h.ref[n]) THEN None ELSE @],
         n, down, caller, ret, "cached")

CachedReturn(h, n, down, caller) ==
  IF down # None /\ h.cstream[n] = None
  THEN \* self._cache_stream.record_event() on None: AttributeError
       Raise(h, n, down, caller, "nostream")
  ELSE CachedRelease(IF down # None THEN WaitEvent(h, down, h.cstream[n]) ELSE h,
                     n, down, caller, h.cache[n])

\* self_stream = torch.cuda.Stream(...); kept in _cache_stream if shared
OpenLane(h, n, caller, self_stream) ==
  IF self_stream = None THEN h
  ELSE Emit([h EXCEPT !.cstream[n] = IF RecordsLane(h.ref[n]) THEN self_stream ELSE @],
            Ev("lane", n, caller, h.ref[n], self_stream, None,
               IF RecordsLane(h.ref[n]) THEN "recorded" ELSE "open"))

\* mask_out = self._mask.compute_(self_stream)
ComputeMaskSkipped(h, n, self_stream) == Result(h, None, TRUE)
ComputeMask(h, n, self_stream) ==
  IF mask[n] # 0 THEN compute_(h, mask[n], self_stream, n) ELSE Result(h, None, TRUE)

\* self._mask_out = mask_out
SetMaskOut(h, n, mout) == IF mask[n] # 0 THEN [h EXCEPT !.mout[n] = mout] ELSE h

\* out = self.compute(*inputs), on self_stream when there is one
Launch(h, n, caller, self_stream, args, out) ==
  EnqueueOn(Emit([h EXCEPT !.nk[n] = @ + 1],
                 [Ev("kernel", n, caller, h.ref[n], self_stream, out, "kernel")
                    EXCEPT !.args = args]),
            self_stream, Cmd("kernel", out, ReadsOf(args), None))

Sync(h, down, self_stream) ==
  IF Handshake(self_stream) THEN WaitEvent(h, down, self_stream) ELSE h

\* self._mask_out = None; the result is cached if consumers remain; return out
Finish(h, n, down, caller, out) ==
  Return([h EXCEPT !.mout[n] = None,
                   !.cache[n] = IF StoresInCache(h.ref[n]) THEN out ELSE @],
         n, down, caller, out, "fresh")

AfterInputs(ri, n, down, caller, self_stream) ==
  IF ~ri.ok THEN Raise(ri.h, n, down, caller, "upstream")
  ELSE Finish(Sync(Launch(ri.h, n, caller, self_stream, ri.ret,
                          <<n, run, ri.h.nk[n] + 1>>),
                   down, self_stream),
              n, down, caller, <<n, run, ri.h.nk[n] + 1>>)

AfterMask(rm, n, down, caller, self_stream) ==
  IF ~rm.ok THEN Raise(rm.h, n, down, caller, "upstream")
  ELSE AfterInputs(ComputeUpstreams(SetMaskOut(rm.h, n, rm.ret), n, self_stream,
                                    rm.ret, 1, <<>>),
                   n, down, caller, self_stream)

WithLane(h, n, down, caller, self_stream) ==
  AfterMask(ComputeMask(OpenLane(h, n, caller, self_stream), n, self_stream),
            n, down, caller, self_stream)

FreshCompute(h, n, down, caller) ==
  WithLane(h, n, down, caller,
           IF OpensLane(down, h.ref[n]) THEN NewStream(h, n) ELSE None)

\* self._ref_count -= 1
ComputeEnter(h, n, down, caller) ==
  [Emit(h, Ev("compute", n, caller, h.ref[n], down, h.cache[n], "custom"))
     EXCEPT !.ref[n] = @ - 1]

ComputeBody(h, n, down, caller) ==
  IF RefCountError(h.ref[n]) THEN Raise(h, n, down, caller, "refcount")
  ELSE IF h.cache[n] # None THEN CachedReturn(h, n, down, caller)
  ELSE FreshCompute(h, n, down, caller)

compute_(h, n, down, caller) ==
  IF kind[n] = "data" THEN DataCompute(h, n, down, caller)
  ELSE ComputeBody(ComputeEnter(h, n, down, caller), n, down, caller)

\* ------------------------------------------------------------------ observations
\* What a test harness around the factors would record during one engine run.
Count(lg, op, n) == Cardinality({i \in 1..Len(lg) : lg[i].op = op /\ lg[i].node = n})

Returned(lg, n) == {lg[i].val : i \in {j \in 1..Len(lg) : lg[j].op = "ret" /\ lg[j].node = n}}

Last(S) == CHOOSE i \in S : \A j \in S : j <= i

\* was node n prepared since the last clean_up_ call on it, before event i of lg
TouchedAt(t0, lg, i, n) ==
  LET S == {j \in 1..(i - 1) : lg[j].node = n /\ lg[j].op \in {"pre", "cleanup"}}
  IN IF S = {} THEN t0[n] ELSE lg[Last(S)].op = "pre"

\* _cache, _ref_count, _cache_stream, _mask_out, _clean_required, _engine as in the class body
Clean(n) ==
  /\ ref_count[n] = 0 /\ cache[n] = None /\ cache_stream[n] = None
  /\ mask_out[n] = None /\ ~clean_required[n] /\ ~engine[n]

StartOfRun(clean, zero, stale, touched) ==
  [n_pre |-> [n \in Nodes |-> 0], n_comp |-> [n \in Nodes |-> 0],
   n_ret |-> [n \in Nodes |-> 0], rets |-> [n \in Nodes |-> {}],
   root_pre |-> [n \in Nodes |-> 0], root_comp |-> [n \in Nodes |-> 0],
   two_phase |-> TRUE, computing |-> FALSE, only_pre |-> TRUE, failed |-> FALSE,
   cleanups |-> FALSE, unmatched |-> FALSE, resumed |-> FALSE,
   clean_start |-> clean, zero_start |-> zero, stale |-> stale,
   cleaned |-> {}, forced |-> {}, touched |-> touched]

Observe(hs, lg, op, r, force) ==
  [hs EXCEPT
     !.n_pre = [n \in Nodes |-> @[n] + Count(lg, "pre", n)],
     !.n_comp = [n \in Nodes |-> @[n] + Count(lg, "compute", n)],
     !.n_ret = [n \in Nodes |-> @[n] + Count(lg, "ret", n)],
     !.rets = [n \in Nodes |-> @[n] \cup Returned(lg, n)],
     !.root_pre[r] = IF op = "pre" THEN @ + 1 ELSE @,
     !.root_comp[r] = IF op = "compute" THEN @ + 1 ELSE @,
     !.two_phase = @ /\ ~(op = "pre" /\ hs.computing),
     !.computing = @ \/ op = "compute",
     !.only_pre = @ /\ op = "pre",
     !.cleanups = @ \/ op = "cleanup",
     !.resumed = @ \/ (op # "cleanup" /\ hs.cleanups),
     !.unmatched = @ \/ \E n \in Nodes :
                         /\ kind[n] = "custom"
                         /\ hs.n_comp[n] + Count(lg, "compute", n) >
                              hs.n_pre[n] + Count(lg, "pre", n),
     !.failed = @ \/ \E i \in 1..Len(lg) : lg[i].op = "raise",
     !.cleaned = IF op = "cleanup" THEN @ \cup {r} ELSE {},
     !.forced = IF op = "cleanup" THEN (IF force THEN @ \cup {r} ELSE @) ELSE {},
     !.touched = [n \in Nodes |-> TouchedAt(@, lg, Len(lg) + 1, n)]]

\* ------------------------------------------------------------------ engine
Commit(h) ==
  /\ ref_count' = h.ref /\ cache' = h.cache /\ cache_stream' = h.cstream
  /\ clean_required' = h.creq /\ mask_out' = h.mout /\ engine' = h.eng
  /\ data' = h.data /\ lanes' = h.lanes /\ kernel_count' = h.nk /\ log' = h.log

\* the class attributes of CustomFactor and the defaults of ColumnDataFactor
ConfDefaults ==
  /\ win = [n \in Nodes |-> 1]
  /\ total_backwards = [n \in Nodes |-> None]
  /\ force_delay = [n \in Nodes |-> None]
  /\ data_delay = TRUE

NoLayout == keys = <<>> /\ layout = None /\ answer = None

InitLifecycle ==
  /\ \E g \in Graphs : kind = g.kind /\ inputs = g.inputs /\ mask = g.mask
  /\ \E ks \in KeepSets : keep_cache = [n \in Nodes |-> n \in ks]
  /\ ref_count = [n \in Nodes |-> 0]
  /\ cache = [n \in Nodes |-> None]
  /\ cache_stream = [n \in Nodes |-> None]
  /\ clean_required = [n \in Nodes |-> FALSE]
  /\ mask_out = [n \in Nodes |-> None]
  /\ engine = [n \in Nodes |-> FALSE]
  /\ data = [n \in Nodes |-> FALSE]
  /\ lanes = <<>>
  /\ run = 1 /\ calls = 0 /\ use_lane \in BOOLEAN
  /\ kernel_count = [n \in Nodes |-> 0]
  /\ log = <<>>
  /\ hist = StartOfRun(TRUE, TRUE, {}, [n \in Nodes |-> FALSE])

Init == InitLifecycle /\ ConfDefaults /\ NoLayout

Idle == <<>>                    \* no stream has pending work

\* the engine calls root.pre_compute_(engine, start, end)
PreCompute(r) ==
  /\ calls < MaxCalls
  /\ Commit(pre_compute_(Heap, r, Engine))
  /\ hist' = Observe(hist, log', "pre", r, FALSE)
  /\ calls' = calls + 1
  /\ UNCHANGED <<graph, conf, arrays, answer, run, use_lane>>

\* root.compute_(stream) as the engine calls it; the engine then uses the
\* result on its own stream
EngineUse(res, down) ==
  IF res.ok THEN EnqueueOn(res.h, down, Cmd("use", None, {res.ret} \ {None}, None))
  ELSE res.h

EngineCompute(r) ==
  EngineUse(compute_(Heap, r, IF use_lane THEN MainLane ELSE None, Engine),
            IF use_lane THEN MainLane ELSE None)

\* the engine calls root.compute_(stream) and synchronizes with the device
Compute(r) ==
  /\ calls < MaxCalls
  /\ Commit([EngineCompute(r) EXCEPT !.lanes = Idle])
  /\ hist' = Observe(hist, log', "compute", r, FALSE)
  /\ calls' = calls + 1
  /\ UNCHANGED <<graph, conf, arrays, answer, run, use_lane>>

\* the engine calls root.clean_up_(force)
CleanUp(r, force) ==
  /\ calls < MaxCalls
  /\ Commit(clean_up_(Heap, r, force, Engine))
  /\ hist' = Observe(hist, log', "cleanup", r, force)
  /\ calls' = calls + 1
  /\ UNCHANGED <<graph, conf, arrays, answer, run, use_lane>>

\* the engine starts its next run, with or without CUDA streams
NewRun ==
  /\ run < MaxRuns
  /\ run' = run + 1 /\ use_lane' \in BOOLEAN
  /\ kernel_count' = [n \in Nodes |-> 0]
  /\ hist' = StartOfRun(\A n \in Nodes : Clean(n), \A n \in Nodes : ref_count[n] = 0,
                      {n \in Nodes : cache[n] # None}, hist.touched)
  /\ log' = <<>>
  /\ UNCHANGED <<graph, conf, arrays, answer, heap, lanes, calls>>

Next ==
  \/ \E r \in Roots : PreCompute(r)
  \/ \E r \in Roots : Compute(r)
  \/ \E r \in Roots : \E force \in BOOLEAN : CleanUp(r, force)
  \/ NewRun

Spec == Init /\ [][Next]_vars

\* ------------------------------------------------------------------ asynchronous device
\* The engine enqueues and continues; every stream executes its commands in
\* order, at its own pace.
StreamInit == Init /\ use_lane

StreamPreCompute(r) ==
  /\ calls < MaxStreamCalls
  /\ Commit(pre_compute_(Heap, r, Engine))
  /\ calls' = calls + 1
  /\ UNCHANGED <<graph, conf, arrays, answer, run, use_lane, hist>>

StreamCompute(r) ==
  /\ calls < MaxStreamCalls
  /\ Commit(EngineCompute(r))
  /\ calls' = calls + 1
  /\ UNCHANGED <<graph, conf, arrays, answer, run, use_lane, hist>>

StreamCleanUp(r, force) ==
  /\ calls < MaxStreamCalls
  /\ Commit(clean_up_(Heap, r, force, Engine))
  /\ calls' = calls + 1
  /\ UNCHANGED <<graph, conf, arrays, answer, run, use_lane, hist>>

StreamNewRun ==
  /\ run < MaxRuns
  /\ run' = run + 1
  /\ kernel_count' = [n \in Nodes |-> 0]
  /\ log' = <<>>
  /\ UNCHANGED <<graph, conf, arrays, answer, heap, lanes, use_lane, hist, calls>>

\* the device executes the next command of one stream
LaneStep(l) ==
  /\ l \in DOMAIN lanes
  /\ LET c == Head(lanes[l].q)
     IN /\ IF c.c = "wait" THEN EventDone(lanes, c.ev) ELSE TRUE
        /\ lanes' = IF Len(lanes[l].q) = 1
                    THEN [k \in DOMAIN lanes \ {l} |-> lanes[k]]
                    ELSE [lanes EXCEPT ![l] = [q |-> Tail(@.q), done |-> @.done + 1]]
  /\ log' = <<>>
  /\ UNCHANGED <<graph, conf, arrays, answer, heap, run, calls, use_lane, kernel_count, hist>>

MaxStreamsPerNode == 4
AllLanes == {MainLane} \cup (Nodes \X (1..MaxStreamsPerNode))

StreamNext ==
  \/ \E r \in Roots : StreamPreCompute(r)
  \/ \E r \in Roots : StreamCompute(r)
  \/ \E r \in Roots : \E force \in BOOLEAN : StreamCleanUp(r, force)
  \/ StreamNewRun
  \/ \E l \in AllLanes : LaneStep(l)

StreamSpec == StreamInit /\ [][StreamNext]_vars

\* ------------------------------------------------------------------ ParallelGroupBy
MaxRows == 3        \* rows of a flat column
MaxKey == 2         \* largest group key

NaN == <<>>                     \* np.nan; a float x is <<x>>
\* an Optional slot holds None or <<x>>
Some(x) == <<x>>
Larger(a, b) == IF a >= b THEN a ELSE b
Tensor(dtype, v) == [dtype |-> dtype, v |-> v]
Fail(what) == [ok |-> FALSE, val |-> what]
Done(val) == [ok |-> TRUE, val |-> val]

\* the missing marker split() fills with: False for bool, nan otherwise
Missing(dtype) == IF dtype = "bool" THEN FALSE ELSE NaN

\* the elements of S in ascending order
Ascending(S) ==
  [k \in 1..Cardinality(S) |-> CHOOSE x \in S : Cardinality({y \in S : y < x}) = k - 1]

\* torch.sort(v)[1]: the 0-based positions of v in ascending order of value
ArgSort(v) == SortSeq([p \in 1..Len(v) |-> p - 1], LAMBDA a, b : v[a + 1] < v[b + 1])

\* keys + torch.linspace(0, 0.9, n), in units of 1 / Scale(n)
Scale(n) == IF n > 1 THEN 10 * (n - 1) ELSE 1
RelativeKeyLastFirst(ks) ==
  [i \in 1..Len(ks) |-> ks[i] * Scale(Len(ks)) + 9 * (Len(ks) - i)]
RelativeKey(ks) == [i \in 1..Len(ks) |-> ks[i] * Scale(Len(ks)) + 9 * (i - 1)]

\* sorted_keys.int(): the sorted relative keys, truncated
SortedKeys(ks, sorted_indices) ==
  [j \in 1..Len(ks) |-> RelativeKey(ks)[sorted_indices[j] + 1] \div Scale(Len(ks))]

\* [0] + (diff.nonzero() + 1) + [n]
BoundaryOneGroup(sorted_keys) == <<0, Len(sorted_keys)>>
Boundary(sorted_keys) ==
  Ascending({0, Len(sorted_keys)} \cup
            {j \in 1..(Len(sorted_keys) - 1) : sorted_keys[j + 1] - sorted_keys[j] # 0})

Width(boundary) ==
  CHOOSE w \in {boundary[g + 1] - boundary[g] : g \in 1..(Len(boundary) - 1)} :
    \A g \in 1..(Len(boundary) - 1) : boundary[g + 1] - boundary[g] <= w

\* new_full((groups, width), fill) with row i set to sorted_indices[start:end]
Table(boundary, sorted_indices, fill) ==
  [g \in 1..(Len(boundary) - 1) |->
     [c \in 1..Width(boundary) |->
        IF c <= boundary[g + 1] - boundary[g] THEN sorted_indices[boundary[g] + c] ELSE fill]]

\* tensor.view(-1) of a 2-D table
Flatten(m) ==
  [p \in 1..(Len(m) * Len(m[1])) |-> m[((p - 1) \div Len(m[1])) + 1][((p - 1) % Len(m[1])) + 1]]

\* the value the inverse table is padded with
InverseFillLow(n) == -1
InverseFill(n) == n + 1

\* torch.sort(inverse_indices.view(-1))[1][:n]
InverseIndices(table, n) == SubSeq(ArgSort(Flatten(table)), 1, n)

\* the class members set by ParallelGroupBy.__init__
Members(n, boundary, take_indices, inverse_indices) ==
  [boundary |-> boundary, sorted_indices |-> take_indices,
   padding_mask |-> [g \in 1..Len(take_indices) |->
                       [c \in 1..Len(take_indices[g]) |-> take_indices[g][c] = -1]],
   inverse_indices |-> inverse_indices,
   width |-> Width(boundary), groups |-> Len(boundary) - 1,
   data_shape |-> <<Len(boundary) - 1, Width(boundary)>>]

Grouped(n, sorted_indices, boundary) ==
  Members(n, boundary, Table(boundary, sorted_indices, -1),
          InverseIndices(Table(boundary, sorted_indices, InverseFill(n)), n))

Sorted(ks, sorted_indices) ==
  Grouped(Len(ks), sorted_indices, Boundary(SortedKeys(ks, sorted_indices)))

ParallelGroupBy(ks) == Sorted(ks, ArgSort(RelativeKey(ks)))

\* torch.take(input, index) for one index into the flattened input
Take(v, idx) == v[(IF idx < 0 THEN idx + Len(v) ELSE idx) + 1]

\* tensor.masked_fill(mask, value) on a 2-D tensor
MaskedFill(m, msk, value) ==
  [g \in 1..Len(m) |-> [c \in 1..Len(m[g]) |-> IF msk[g][c] THEN value ELSE m[g][c]]]

Shape(m) == <<Len(m), IF Len(m) > 0 THEN Len(m[1]) ELSE 0>>

split(pg, d) ==
  IF d.dtype = "int" THEN Fail("ValueError")
  ELSE Done(Tensor(d.dtype,
                   MaskedFill([g \in 1..pg.groups |->
                                 [c \in 1..pg.width |-> Take(d.v, pg.sorted_indices[g][c])]],
                              pg.padding_mask, Missing(d.dtype))))

\* a tensor with k return values per slot: v[g][c] is the sequence of them
Outputs(dtype, v, k) == [dtype |-> dtype, v |-> v, outs |-> k]
\* tuple(split_data.shape)
TensorShape(sd) ==
  IF "outs" \in DOMAIN sd THEN Shape(sd.v) \o <<sd.outs>> ELSE Shape(sd.v)
\* tuple(split_data.shape) != self._data_shape
ShapeDiffersLeading(pg, sd) == SubSeq(TensorShape(sd), 1, 2) # pg.data_shape
ShapeDiffers(pg, sd) == TensorShape(sd) # pg.data_shape

revert(pg, sd) ==
  IF ShapeDiffers(pg, sd)
  THEN IF SubSeq(TensorShape(sd), 1, 2) = pg.data_shape
       THEN Fail("ValueError: multiple return values, use slice")
       ELSE Fail("ValueError: shape must be same as input")
  ELSE Done(Tensor(sd.dtype,
                   [r \in 1..Len(pg.inverse_indices) |->
                      Take(Flatten(sd.v), pg.inverse_indices[r])]))

\* the inputs explored
KeyVectors == UNION {[1..n -> 0..MaxKey] : n \in 1..MaxRows}
Columns(n) ==
  {Tensor("float", v) : v \in [1..n -> {<<1>>, <<2>>, NaN}]}
    \cup {Tensor("bool", v) : v \in [1..n -> BOOLEAN]}
    \cup {Tensor("int", [i \in 1..n |-> i])}

Call(op, arg, src, res) == [op |-> op, arg |-> arg, src |-> src, ok |-> res.ok, val |-> res.val]

\* one graph, nothing prepared: the lifecycle plays no part here
Unprepared ==
  /\ InitLifecycle /\ ConfDefaults
  /\ mask = Masked.mask /\ keep_cache = [n \in Nodes |-> FALSE] /\ ~use_lane

LayoutInit ==
  /\ Unprepared
  /\ keys \in KeyVectors /\ layout = ParallelGroupBy(keys) /\ answer = None

\* layout.split(data)
Split(d) ==
  /\ answer' = Call("split", d, d, split(layout, d))
  /\ UNCHANGED <<graph, heap, conf, arrays, lanes, run, calls, use_lane, kernel_count, log, hist>>

\* layout.revert(padded), of the tensor the last split returned
Revert ==
  /\ answer # None /\ answer.op = "split" /\ answer.ok
  /\ answer' = Call("revert", answer.val, answer.src, revert(layout, answer.val))
  /\ UNCHANGED <<graph, heap, conf, arrays, lanes, run, calls, use_lane, kernel_count, log, hist>>

\* the arrays a caller may hand to revert: any 2-D shape, or with a trailing
\* dimension of return values
Arrays ==
  {Tensor("float", [g \in 1..r |-> [c \in 1..w |-> <<g + c>>]]) :
     r \in 1..MaxRows, w \in 1..MaxRows}
    \cup {Outputs("float", [g \in 1..r |-> [c \in 1..w |-> [i \in 1..k |-> <<g + c + i>>]]], k) :
             r \in 1..MaxRows, w \in 1..MaxRows, k \in 1..2}

\* layout.revert(array), of any array
RevertArray(sd) ==
  /\ answer' = Call("revert_array", sd, sd, revert(layout, sd))
  /\ UNCHANGED <<graph, heap, conf, arrays, lanes, run, calls, use_lane, kernel_count, log, hist>>

LayoutNext ==
  \/ \E d \in Columns(Len(keys)) : Split(d)
  \/ Revert
  \/ \E sd \in Arrays : RevertArray(sd)

LayoutSpec == LayoutInit /\ [][LayoutNext]_vars

\* ------------------------------------------------------------------ properties
Custom == {n \in Nodes : kind[n] = "custom"}

Events(op) == {i \in 1..Len(log) : log[i].op = op /\ log[i].tag # "data"}

\* the event that ends the call entered at event i
EndOf(lg, i, ends) ==
  CHOOSE j \in (i + 1)..Len(lg) :
    /\ lg[j].op \in ends /\ lg[j].node = lg[i].node
    /\ \A k \in (i + 1)..(j - 1) : ~(lg[k].op \in ends /\ lg[k].node = lg[i].node)

\* the nodes the call entered at event i called `op` on, in call order
Callees(lg, i, ends, op) ==
  LET j == EndOf(lg, i, ends)
      made == SelectSeq(SubSeq(lg, i + 1, j - 1),
                        LAMBDA e : e.op = op /\ e.caller = lg[i].node)
  IN [k \in 1..Len(made) |-> made[k].node]

UpstreamFactors(n) == SelectSeq(inputs[n], IsFactor)
MaskFactor(n) == IF mask[n] # 0 THEN <<mask[n]>> ELSE <<>>

\* how many times consumer c refers to node u (inputs and mask)
Refers(c, u) ==
  Cardinality({i \in 1..Len(inputs[c]) : inputs[c][i] = u}) + (IF mask[c] = u THEN 1 ELSE 0)

RECURSIVE SumTo(_, _)
SumTo(f, k) == IF k = 0 THEN 0 ELSE f[k] + SumTo(f, k - 1)

\* C1: in a two-phase run from clean nodes, a factor prepared by K >= 2
\* consumers has compute() called at most once, and once a compute_ call on it
\* has returned, exactly once, every returned tensor being that call's result.
C1_ComputedOnce ==
  (hist.two_phase /\ hist.clean_start) =>
    \A n \in Custom :
      hist.n_pre[n] >= 2 =>
        /\ kernel_count[n] <= 1
        /\ hist.n_ret[n] >= 1 =>
             kernel_count[n] = 1 /\ hist.rets[n] = {<<n, run, 1>>}

C1_Witness ==
  /\ hist.two_phase /\ hist.clean_start
  /\ \E n \in Custom :
       /\ hist.n_pre[n] >= 2 /\ hist.n_ret[n] = hist.n_pre[n]
       /\ kernel_count[n] = 1 /\ hist.rets[n] = {<<n, run, 1>>}

C4_RefCountError ==
  \A i \in Events("compute") :
    log[i].ref <= 0 =>
      /\ i < Len(log)
      /\ log[i + 1].op = "raise" /\ log[i + 1].node = log[i].node
      /\ log[i + 1].tag = "refcount" /\ log[i + 1].val = None

C4_Witness ==
  \E i \in Events("compute") :
    /\ log[i].ref = 0 /\ log[i].caller # Engine
    /\ log[i + 1].op = "raise" /\ log[i + 1].tag = "refcount"

\* C5: while a run that started with every count at zero has only prepared,
\* each pre_compute_ call on a factor without _keep_cache adds one to its
\* count; a call recurses into inputs and mask exactly when it found the
\* count at zero; so counts equal the calls received and every node was
\* prepared once per reference from a prepared consumer (or root).
C5_PreparedOncePerConsumer ==
  (hist.zero_start /\ hist.only_pre) =>
    /\ \A n \in Custom : ~keep_cache[n] => ref_count[n] = hist.n_pre[n]
    /\ \A i \in Events("pre") :
         LET n == log[i].node
         IN /\ ~keep_cache[n] =>
                 log[EndOf(log, i, {"pre_end"})].ref = log[i].ref + 1
            /\ Callees(log, i, {"pre_end"}, "pre") =
                 IF log[i].ref = 0 THEN UpstreamFactors(n) \o MaskFactor(n) ELSE <<>>
    /\ \A u \in Nodes :
         hist.n_pre[u] = hist.root_pre[u] +
           SumTo([c \in Nodes |-> IF c \in Custom /\ hist.n_pre[c] >= 1
                                  THEN Refers(c, u) ELSE 0], 4)

C5_Witness ==
  /\ hist.zero_start /\ hist.only_pre
  /\ \E n \in Custom : \E u \in Custom :
       /\ ~keep_cache[n] /\ hist.n_pre[n] >= 2 /\ ref_count[n] = hist.n_pre[n]
       /\ Refers(n, u) = 1 /\ hist.n_pre[u] = 1

\* C6: a factor with _keep_cache prepared by K >= 1 consumers (run started
\* with every count at zero) has count K + 1 while the run has only prepared;
\* once K compute_ calls on it have returned (no clean-up yet, no compute_
\* call beyond the pre_compute_ calls received) its count is 1
\* and its cache holds the result.
C6_KeepCacheExtraReference ==
  hist.zero_start =>
    \A n \in Custom :
      (keep_cache[n] /\ hist.n_pre[n] >= 1) =>
        /\ hist.only_pre => ref_count[n] = hist.n_pre[n] + 1
        /\ (~hist.cleanups /\ ~hist.unmatched /\ hist.n_comp[n] = hist.n_pre[n]
               /\ hist.n_ret[n] = hist.n_comp[n]) =>
             /\ ref_count[n] = 1
             /\ cache[n] # None /\ cache[n] \in hist.rets[n]

C6_Witness ==
  /\ hist.zero_start /\ ~hist.cleanups /\ ~hist.unmatched
  /\ \E n \in Custom :
       /\ keep_cache[n] /\ hist.n_pre[n] >= 1 /\ hist.root_pre[n] = 0
       /\ hist.n_ret[n] = hist.n_pre[n] /\ hist.n_comp[n] = hist.n_pre[n]
       /\ ref_count[n] = 1 /\ cache[n] # None

\* nodes reachable from r through inputs and masks
RECURSIVE Reach(_)
Reach(r) ==
  {r} \cup UNION {Reach(inputs[r][i]) : i \in {j \in 1..Len(inputs[r]) : IsFactor(inputs[r][j])}}
      \cup (IF mask[r] # 0 THEN Reach(mask[r]) ELSE {})

PreparedRoots == {r \in Nodes : hist.root_pre[r] >= 1}

\* C7: once clean_up_ has been called on every root the run prepared (all
\* clean_up_ calls of the run coming after its last pre_compute_/compute_
\* call, failed or not), every factor
\* prepared in the run has count zero and, unless it has _keep_cache and no
\* forced call reached it, an empty cache; a clean_up_(force=False) call
\* leaves the cache of a _keep_cache factor as it was; after clean_up_(True)
\* on a root every node reachable from it has an empty cache.
C7_CleanUpResets ==
  /\ [](/\ (~hist.resumed /\ PreparedRoots # {} /\ PreparedRoots \subseteq hist.cleaned) =>
             \A n \in Custom :
               hist.n_pre[n] >= 1 =>
                 /\ ref_count[n] = 0
                 /\ ~keep_cache[n] => cache[n] = None
        /\ \A r \in hist.forced : \A n \in Reach(r) :
             /\ ~data[n]
             /\ n \in Custom => cache[n] = None /\ ref_count[n] = 0)
  /\ [][\A n \in Custom :
          (keep_cache[n] /\ Len(log') > 0 /\ log'[1].op = "cleanup"
             /\ log'[1].tag = "soft") => cache'[n] = cache[n]]_vars

C7_Witness ==
  /\ ~hist.resumed /\ Cardinality(PreparedRoots) = 1 /\ PreparedRoots \subseteq hist.cleaned
  /\ hist.forced = {} /\ hist.failed
  /\ \E n \in Custom : keep_cache[n] /\ hist.n_pre[n] >= 1 /\ cache[n] # None
  /\ \E n \in Custom : ~keep_cache[n] /\ hist.n_ret[n] >= 1 /\ ref_count[n] = 0

\* C8: a clean_up_(force=False) call on a CustomFactor that was not prepared
\* since the last clean_up_ call on it returns at once, calling clean_up_ on
\* no input or mask; made by the engine, it leaves every field of every
\* factor as it was.
C8_CleanUpNoOp ==
  [][\A i \in 1..Len(log') :
       (/\ log'[i].op = "cleanup" /\ log'[i].tag = "soft"
        /\ ~TouchedAt(hist.touched, log', i, log'[i].node)) =>
          /\ log'[i + 1].op = "cleanup_end" /\ log'[i + 1].node = log'[i].node
          /\ log'[i + 1].ref = log'[i].ref
          /\ i = 1 => Len(log') = 2 /\ heap' = heap]_vars

C8_Witness ==
  /\ Len(log) = 2 /\ log[1].op = "cleanup" /\ log[1].tag = "soft"
  /\ log[2].tag = "skip" /\ hist.n_pre[log[1].node] >= 1
  /\ \E r \in hist.cleaned \ {log[1].node} : log[1].node \in Reach(r)

\* C9 as stated: a factor without _keep_cache that the run has prepared never
\* returns a tensor that compute() produced in an earlier run.
C9_NoStaleResult ==
  \A n \in Custom :
    (~keep_cache[n] /\ hist.n_pre[n] >= 1) => \A t \in hist.rets[n] : t[2] = run

\* C9 amended: pre_compute_ leaves every cache as it is; a stale cache of a
\* factor without _keep_cache is dropped by whichever clean_up_ call reaches
\* the factor, forced or not; and a factor that held no cache when the run
\* started returns only tensors of this run.
C9_StaleDroppedByCleanUp ==
  /\ [](\A n \in Custom :
          (~keep_cache[n] /\ n \notin hist.stale) => \A t \in hist.rets[n] : t[2] = run)
  /\ [][/\ (Len(log') > 0 /\ log'[1].op = "pre") => cache' = cache
        /\ \A i \in 1..Len(log') :
             (log'[i].op = "cleanup" /\ log'[i].tag # "data"
                /\ ~keep_cache[log'[i].node]) => cache'[log'[i].node] = None]_vars

C9_Witness ==
  \E i \in Events("cleanup") :
    /\ log[i].tag = "soft" /\ ~keep_cache[log[i].node]
    /\ log[i].node \in hist.stale /\ cache[log[i].node] = None

\* C10 as stated: a compute_ call given a stream that finds no cached result
\* opens a stream of its own exactly when the count it found was above 1.
C10_LaneOnlyIfShared ==
  \A i \in Events("compute") :
    (log[i].lane # None /\ log[i].val = None /\ log[i].ref >= 1) =>
      (log[i + 1].op = "lane" <=> log[i].ref > 1)

\* C10 amended: such a call always opens a stream of its own, shared or not;
\* the count it found being above 1 decides only whether that stream is kept
\* in _cache_stream.
C10_LaneWheneverGiven ==
  \A i \in Events("compute") :
    (log[i].lane # None /\ log[i].val = None /\ log[i].ref >= 1) =>
      /\ log[i + 1].op = "lane" /\ log[i + 1].node = log[i].node
      /\ log[i + 1].lane \notin {None, log[i].lane}
      /\ log[i + 1].tag = "recorded" <=> log[i].ref > 1

C10_Witness ==
  \E i \in Events("compute") :
    /\ log[i].lane # None /\ log[i].val = None /\ log[i].ref = 1
    /\ log[i + 1].op = "lane" /\ log[i + 1].tag = "open"

\* C3: whenever a stream is about to execute a command that reads tensors
\* (a consumer's _format_input or compute(), or the engine's use of a root's
\* result), compute() has finished for each of them -- whatever order the
\* streams run in, for fresh results and for results taken from the cache.
C3_ConsumerAfterProducer ==
  \A l \in DOMAIN lanes :
    LET c == Head(lanes[l].q)
    IN c.c # "wait" => \A t \in c.reads : ~Pending(lanes, t)

\* a cached result was handed to a caller with a stream while the compute()
\* producing it was still pending on its own stream
C3_Witness ==
  \E i \in Events("ret") :
    /\ log[i].tag = "cached" /\ log[i].lane # None
    /\ Pending(lanes, log[i].val)
    /\ \E l \in DOMAIN lanes : \E k \in 1..Len(lanes[l].q) :
         lanes[l].q[k].c # "wait" /\ log[i].val \in lanes[l].q[k].reads

\* C11: a compute_ call that ran compute() leaves the result in _cache exactly
\* when the count it leaves is above zero; in a run that starts from clean
\* nodes, a factor without _keep_cache that has received at most one
\* pre_compute_ call holds no cached result, neither between engine calls nor
\* when one of its compute_ calls is entered or returns.
C11_CachedOnlyIfShared ==
  /\ \A i \in Events("ret") :
       log[i].tag = "fresh" =>
         log[i].held = IF log[i].ref > 0 THEN log[i].val ELSE None
  /\ hist.clean_start =>
       \A n \in Custom :
         (~keep_cache[n] /\ hist.n_pre[n] <= 1) =>
           /\ cache[n] = None
           /\ \A i \in Events("ret") : log[i].node = n => log[i].held = None
           /\ \A i \in Events("compute") : log[i].node = n => log[i].val = None

C11_Witness ==
  /\ hist.clean_start
  /\ \E i \in Events("ret") : \E j \in Events("ret") :
       /\ log[i].tag = "fresh" /\ log[i].ref > 0 /\ log[i].held = log[i].val
       /\ log[j].tag = "fresh" /\ log[j].ref = 0 /\ log[j].held = None
       /\ ~keep_cache[log[j].node] /\ hist.n_pre[log[j].node] = 1

\* ------------------------------------------------------------------ C19, C20

\* the slots of the padded table, and the flat row a slot holds (-1: none)
Slots == {<<g, c>> \in (1..layout.groups) \X (1..layout.width) : TRUE}
RowAt(s) == layout.sorted_indices[s[1]][s[2]]
GroupSize(k) == Cardinality({r \in 1..Len(keys) : keys[r] = k})
HasPadding == layout.groups * layout.width > Len(keys)
Unsorted == \E i, j \in 1..Len(keys) : i < j /\ keys[i] > keys[j]

\* C19: for every non-empty vector of non-negative integer keys and every flat
\* column split accepts, revert(split(data)) succeeds and equals data, element
\* for element, in the original row order.
C19_RevertSplit ==
  (answer # None /\ answer.op = "revert") =>
    /\ answer.ok
    /\ answer.val.dtype = answer.src.dtype
    /\ Len(answer.val.v) = Len(keys)
    /\ \A r \in 1..Len(keys) : answer.val.v[r] = answer.src.v[r]

\* a round trip over unsorted, non-contiguous keys with a padded layout
C19_Witness ==
  /\ answer # None /\ answer.op = "revert" /\ answer.ok
  /\ answer.val = answer.src
  /\ Unsorted /\ HasPadding /\ layout.groups > 1
  /\ \E r \in 1..Len(keys) : keys[r] = 2
  /\ \A r \in 1..Len(keys) : keys[r] # 1
  /\ \E i, j \in 1..Len(keys) : answer.src.v[i] # answer.src.v[j]

\* C20: the padded layout has one row per distinct key and one column per row
\* of the largest group; in split(data) every padding slot reads as the missing
\* marker, and every original row appears in exactly one valid slot, with its
\* value, in the table row that holds exactly the rows of its key.
C20_PaddedLayout ==
  /\ layout # None =>
        /\ layout.groups = Cardinality({keys[r] : r \in 1..Len(keys)})
        /\ \A r \in 1..Len(keys) : GroupSize(keys[r]) <= layout.width
        /\ \E r \in 1..Len(keys) : GroupSize(keys[r]) = layout.width
        /\ \A r \in 1..Len(keys) : Cardinality({s \in Slots : RowAt(s) = r - 1}) = 1
        /\ \A s \in Slots : RowAt(s) \in (0..(Len(keys) - 1)) \cup {-1}
        /\ \A s, t \in Slots :
             (RowAt(s) # -1 /\ RowAt(t) # -1) =>
               ((s[1] = t[1]) <=> (keys[RowAt(s) + 1] = keys[RowAt(t) + 1]))
  /\ (answer # None /\ answer.op = "split" /\ answer.ok) =>
        /\ Shape(answer.val.v) = <<layout.groups, layout.width>>
        /\ \A s \in Slots :
             answer.val.v[s[1]][s[2]] =
               IF RowAt(s) = -1 THEN Missing(answer.src.dtype)
               ELSE answer.src.v[RowAt(s) + 1]

\* a split into a ragged layout: several groups, a padding slot, keys unsorted
C20_Witness ==
  /\ answer # None /\ answer.op = "split" /\ answer.ok
  /\ layout.groups > 1 /\ HasPadding /\ Unsorted
  /\ \E s \in Slots : RowAt(s) = -1 /\ answer.val.v[s[1]][s[2]] = Missing(answer.src.dtype)
  /\ \E r \in 1..Len(keys) : answer.src.v[r] # Missing(answer.src.dtype)

\* ------------------------------------------------------------------ _format_input

MaxDates == 2       \* dates of the panel
MaxAssets == 2      \* assets of the panel
MaxWin == 2         \* largest window

GroupBys == {"asset", "date"}

\* the flat rows of a panel, ordered by date then asset: the full grid, or the
\* grid with one (date, asset) cell absent
Cells == (1..MaxDates) \X (1..MaxAssets)
RowsOf(S) ==
  [k \in 1..Cardinality(S) |->
     CHOOSE x \in S :
       Cardinality({y \in S : y[1] < x[1] \/ (y[1] = x[1] /\ y[2] < x[2])}) = k - 1]
Panels == {RowsOf(Cells)} \cup {RowsOf(Cells \ {x}) : x \in Cells}
KeyColumns(rows) ==
  [g \in GroupBys |-> [r \in 1..Len(rows) |-> IF g = "date" THEN rows[r][1] ELSE rows[r][2]]]

\* engine.group_by_(data, groupby) and engine.revert_(data, groupby, name)
group_by_(lay, flat, groupby) == split(lay[groupby], flat)
revert_(lay, grouped, groupby) == revert(lay[groupby], grouped)

\* BaseFactor._regroup_by_other
Regrouped(lay, own, reverted) ==
  IF reverted.ok THEN group_by_(lay, reverted.val, own) ELSE reverted
_regroup_by_other(lay, own, other, factor_out) ==
  IF other # own
  THEN Regrouped(lay, own, revert_(lay, factor_out, other))
  ELSE Done(factor_out)

\* ~mask
Same(m) == m
Invert(m) == [g \in 1..Len(m) |-> [c \in 1..Len(m[g]) |-> ~m[g][c]]]

\* ret.masked_fill(~mask, False or nan)
FillMasked(ret, regrouped) ==
  Tensor(ret.dtype, MaskedFill(ret.v, Invert(regrouped.v), Missing(ret.dtype)))

\* float arithmetic, exact: a float is nan, <<n>> or <<n, d>> in lowest terms
RECURSIVE GCD(_, _)
GCD(a, b) == IF b = 0 THEN a ELSE GCD(b, a % b)
Lowest(n, d, g) == IF d \div g = 1 THEN <<n \div g>> ELSE <<n \div g, d \div g>>
Abs(n) == IF n < 0 THEN -n ELSE n
Ratio(n, d) ==
  IF d < 0 THEN Lowest(-n, -d, GCD(Abs(n), -d))
  ELSE Lowest(n, d, GCD(Abs(n), d))
Num(a) == a[1]
Den(a) == IF Len(a) = 2 THEN a[2] ELSE 1
IsNaN(a) == a = NaN
Mul(a, b) == IF IsNaN(a) \/ IsNaN(b) THEN NaN ELSE Ratio(Num(a) * Num(b), Den(a) * Den(b))
Div(a, b) == IF IsNaN(a) \/ IsNaN(b) THEN NaN ELSE Ratio(Num(a) * Den(b), Den(a) * Num(b))
Add(a, b) ==
  IF IsNaN(a) \/ IsNaN(b) THEN NaN
  ELSE Ratio(Num(a) * Den(b) + Num(b) * Den(a), Den(a) * Den(b))

\* x.new_full((x.shape[0], win - 1), nan)
NoStack(x, w) == [g \in 1..Len(x) |-> <<>>]
NanStack(x, w) == [g \in 1..Len(x) |-> [c \in 1..(w - 1) |-> NaN]]
\* torch.cat((a, b), dim=1)
Cat(a, b) == [g \in 1..Len(a) |-> a[g] \o b[g]]
\* tensor.unfold(1, size, 1): every run of size consecutive columns
Sliding(m, size) ==
  [g \in 1..Len(m) |-> [t \in 1..(Len(m[g]) - size + 1) |-> SubSeq(m[g], t, t + size - 1)]]
\* Rolling.unfold
Unfold(x, w) == Sliding(Cat(NanStack(x, w), x), w)

\* DeviceConstant.linspace(n)[k], in units of 1 / Scale(n)
Linspace(n, k) == 9 * (k - 1)
\* mask.float() + w of masked_last, for the mask ~isnan
Weight(window, k) ==
  (IF IsNaN(window[k]) THEN 0 ELSE Scale(Len(window))) + Linspace(Len(window), k)
ArgMax(window) ==
  CHOOSE k \in 1..Len(window) : \A j \in 1..Len(window) : Weight(window, j) <= Weight(window, k)
\* nanlast over the window axis: masked_last(data, ~isnan(data))
LastSlot(window) == window[Len(window)]
NanLast(window) == window[ArgMax(window)]

\* Rolling.split: the chunks (s, e) of the time axis, 0-based, e exclusive
GiB == 1073741824
ChunkStep(groups, w, multi) == Larger((GiB \div multi) \div (groups * w * w), 1)
ChunkStartsAfter(n, step) == {b \in 1..(n - 1) : b % step = 0}
ChunkStarts(n, step) == {b \in 0..(n - 1) : b % step = 0}
Boundaries(n, step) == Ascending(ChunkStarts(n, step) \cup {n})
Chunks(n, step) ==
  [i \in 1..(Len(Boundaries(n, step)) - 1) |->
     <<Boundaries(n, step)[i], Boundaries(n, step)[i + 1]>>]

\* Rolling(x, win) without an adjustment
RollingPlain(x, w, multi) ==
  [values |-> Unfold(x.v, w), win |-> w,
   split |-> Chunks(Len(x.v[1]), ChunkStep(Len(x.v), w, multi)),
   adjustments |-> None, adjustment_last |-> None]

\* one slot of the dense adjusted window: value * adjustment / adjustment_last
Unadjusted(v, a, last) == v
Adjusted(v, a, last) == Div(Mul(v, a), last)

\* Rolling.adjust(s, e): windows s..e-1 (0-based) of every group
adjust(r, s, e) ==
  [g \in 1..Len(r.values) |->
     [t \in 1..(e - s) |->
        IF r.adjustments # None
        THEN [k \in 1..r.win |->
                Adjusted(r.values[g][s + t][k], r.adjustments[g][s + t][k],
                         r.adjustment_last[g][s + t])]
        ELSE r.values[g][s + t]]]

\* the reductions over the window axis handed to agg
RECURSIVE SumTo3(_, _)
SumTo3(window, k) == IF k = 1 THEN window[1] ELSE Add(SumTo3(window, k - 1), window[k])
Reduce(op, window) ==
  IF op = "last_nonnan" THEN NanLast(window)
  ELSE IF op = "sum" THEN SumTo3(window, Len(window))
  ELSE Div(SumTo3(window, Len(window)), <<Len(window)>>)
ApplyOp(op, dense) ==
  [g \in 1..Len(dense) |-> [t \in 1..Len(dense[g]) |-> Reduce(op, dense[g][t])]]

\* Rolling.agg(op): op on each chunk's adjusted window, concatenated along time
RECURSIVE CatChunks(_, _, _)
CatChunks(r, op, i) ==
  IF i > Len(r.split) THEN [g \in 1..Len(r.values) |-> <<>>]
  ELSE Cat(ApplyOp(op, adjust(r, r.split[i][1], r.split[i][2])), CatChunks(r, op, i + 1))
agg(r, op) == CatChunks(r, op, 1)

\* Rolling.__init__ with Rolling._split_multi = multi
RollingWith(x, w, adjustment, multi) ==
  IF adjustment = None THEN RollingPlain(x, w, multi)
  ELSE [values |-> Unfold(x.v, w), win |-> w,
        split |-> Chunks(Len(x.v[1]), ChunkStep(Len(x.v), w, multi)),
        adjustments |-> RollingPlain(adjustment, w, multi).values,
        adjustment_last |-> agg(RollingPlain(adjustment, w, multi), "last_nonnan")]
Rolling(x, w, adjustment) == RollingWith(x, w, adjustment, 1)

\* the masking step of _format_input
MaskWith(ret, regrouped) ==
  IF regrouped.ok THEN Done(FillMasked(ret, regrouped.val)) ELSE regrouped
ApplyMask(lay, own, ret, mask_by, mask_output) ==
  IF mask_output = None THEN Done(ret)
  ELSE MaskWith(ret, _regroup_by_other(lay, own, mask_by, mask_output))

\* the rolling step of _format_input
ApplyWin(ret, w, adjustments) == IF w > 1 THEN Done(Rolling(ret, w, adjustments)) ELSE Done(ret)

\* CustomFactor._format_input
RollMasked(masked, w, adjustments) ==
  IF masked.ok THEN ApplyWin(masked.val, w, adjustments) ELSE masked
MaskRegrouped(lay, own, w, regrouped, adjustments, mask_by, mask_output) ==
  IF regrouped.ok
  THEN RollMasked(ApplyMask(lay, own, regrouped.val, mask_by, mask_output), w, adjustments)
  ELSE regrouped
_format_input(lay, own, w, up_by, upstream_out, adjustments, mask_by, mask_output) ==
  MaskRegrouped(lay, own, w, _regroup_by_other(lay, own, up_by, upstream_out),
                adjustments, mask_by, mask_output)

\* what an upstream grouped by `by` holds for a flat column: ColumnDataFactor.pre_compute_
GroupedBy(lay, by, flat) == IF flat = None THEN None ELSE group_by_(lay, flat, by).val

\* the flat columns explored: distinct floats, floats with a missing row, bools
FlatColumns(n) ==
  {Tensor("float", [r \in 1..n |-> <<r>>]),
   Tensor("float", [r \in 1..n |-> IF r = 1 THEN NaN ELSE <<r>>]),
   Tensor("bool", [r \in 1..n |-> r % 2 = 1])}
FlatMasks(n) ==
  {Tensor("bool", [r \in 1..n |-> r # q]) : q \in 0..n}
    \cup {Tensor("bool", [r \in 1..n |-> FALSE])}
FlatAdjustments(n) == {Tensor("float", [r \in 1..n |-> <<10 + r>>])}

FormatInit ==
  /\ Unprepared
  /\ \E rows \in Panels :
       /\ keys = KeyColumns(rows)
       /\ layout = [g \in GroupBys |-> ParallelGroupBy(KeyColumns(rows)[g])]
  /\ answer = None

\* a consumer grouped by `own` with window w formats one upstream output
FormatInput(own, w, up_by, d, a, mask_by, m) ==
  /\ answer = None
  /\ d.dtype = "bool" => w = 1
  /\ a # None => d.dtype = "float"
  /\ answer' = [Call("format", d,
                     [own |-> own, win |-> w, up_by |-> up_by, column |-> d,
                      adjustments |-> a, mask_by |-> mask_by, mask |-> m],
                     _format_input(layout, own, w, up_by, GroupedBy(layout, up_by, d),
                                   GroupedBy(layout, up_by, a),
                                   mask_by, GroupedBy(layout, mask_by, m)))
                  EXCEPT !.arg = None]
  /\ UNCHANGED <<graph, heap, conf, arrays, lanes, run, calls, use_lane, kernel_count, log, hist>>

\* the kernel has consumed the formatted input
Consume ==
  /\ answer # None
  /\ answer' = None
  /\ UNCHANGED <<graph, heap, conf, arrays, lanes, run, calls, use_lane, kernel_count, log, hist>>

FormatNext ==
  \/ Consume
  \/ \E own, up_by, mask_by \in GroupBys, w \in 1..MaxWin :
    \E d \in FlatColumns(Len(keys.asset)),
       a \in FlatAdjustments(Len(keys.asset)) \cup {None},
       m \in FlatMasks(Len(keys.asset)) \cup {None} :
      FormatInput(own, w, up_by, d, a, mask_by, m)

FormatSpec == FormatInit /\ [][FormatNext]_vars

\* ------------------------------------------------------------------ C12, C13

WasFormatted == answer # None /\ answer.op = "format"
\* the flat row (0-based, -1: padding) at a slot of the consumer's own layout
OwnRow(g, c) == layout[answer.src.own].sorted_indices[g][c]
OwnShape == layout[answer.src.own].data_shape
Visible(r) == answer.src.mask = None \/ answer.src.mask.v[r + 1]
\* what the kernel is to see at a slot: the upstream value of the slot's row,
\* missing at padding and where the mask is false
AtKernel(g, c) ==
  IF OwnRow(g, c) = -1 THEN Missing(answer.src.column.dtype)
  ELSE IF Visible(OwnRow(g, c)) THEN answer.src.column.v[OwnRow(g, c) + 1]
  ELSE Missing(answer.src.column.dtype)
\* the adjustment of the slot's row
AdjustmentAt(g, c) ==
  IF OwnRow(g, c) = -1 THEN NaN ELSE answer.src.adjustments.v[OwnRow(g, c) + 1]
\* the slots, and the window entries, of the consumer's own layout
OwnSlots == (1..OwnShape[1]) \X (1..OwnShape[2])
OwnEntries == OwnSlots \X (1..answer.src.win)
\* entry k of the window ending at column c: column c + k - win, nan left of the table
WindowOf(At(_, _), e) ==
  IF e[1][2] + e[2] - 1 < answer.src.win THEN NaN
  ELSE At(e[1][1], e[1][2] + e[2] - answer.src.win)

C13_OwnLayout ==
  (WasFormatted /\ answer.ok) =>
    /\ answer.src.win = 1 =>
         /\ Shape(answer.val.v) = OwnShape
         /\ \A s \in OwnSlots : answer.val.v[s[1]][s[2]] = AtKernel(s[1], s[2])
    /\ answer.src.win > 1 =>
         /\ Shape(answer.val.values) = OwnShape
         /\ \A e \in OwnEntries :
              answer.val.values[e[1][1]][e[1][2]][e[2]] = WindowOf(AtKernel, e)
    /\ (answer.src.win > 1 /\ answer.src.adjustments # None) =>
         /\ Shape(answer.val.adjustments) = OwnShape
         /\ \A e \in OwnEntries :
              answer.val.adjustments[e[1][1]][e[1][2]][e[2]] = WindowOf(AdjustmentAt, e)

\* ------------------------------------------------------------------ get_total_backwards_


\* a call's result with the memos it left behind
Backwards(tb, val) == [tb |-> tb, val |-> val]
\* self._total_backwards = v; return it
StoreBackwards(n, r, v) == Backwards([r.tb EXCEPT ![n] = Some(v)], v)
\* max(mask_backward, backwards)
MaskBackwards(n, backwards, m) == StoreBackwards(n, m, Larger(m.val, backwards))

RECURSIVE get_total_backwards_(_, _, _)
RECURSIVE UpstreamsBackwards(_, _, _, _, _)
RECURSIVE UpstreamBackwards(_, _, _, _, _)

\* the part after the inputs: + win - 1, then the mask
OwnBackwards(msk, n, r) ==
  IF msk[n] # 0
  THEN MaskBackwards(n, r.val + win[n] - 1, get_total_backwards_(r.tb, msk, msk[n]))
  ELSE StoreBackwards(n, r, r.val + win[n] - 1)

\* max([up.get_total_backwards_() for up in inputs if isinstance(up, BaseFactor)] or (0,))
UpstreamBackwards(msk, n, i, best, r) ==
  UpstreamsBackwards(r.tb, msk, n, i + 1, Larger(best, r.val))
UpstreamsBackwards(tb, msk, n, i, best) ==
  IF i > Len(inputs[n]) THEN Backwards(tb, best)
  ELSE IF ~IsFactor(inputs[n][i]) THEN UpstreamsBackwards(tb, msk, n, i + 1, best)
  ELSE UpstreamBackwards(msk, n, i, best, get_total_backwards_(tb, msk, inputs[n][i]))

\* ColumnDataFactor.get_total_backwards_ and CustomFactor.get_total_backwards_
get_total_backwards_(tb, msk, n) ==
  IF kind[n] = "data" THEN Backwards(tb, 0)
  ELSE IF tb[n] # None THEN Backwards(tb, tb[n][1])
  ELSE OwnBackwards(msk, n, UpstreamsBackwards(tb, msk, n, 1, 0))

NoMemo == [n \in Nodes |-> None]

BackwardsInit ==
  /\ InitLifecycle /\ NoLayout
  /\ keep_cache = [n \in Nodes |-> FALSE] /\ ~use_lane
  /\ win \in [Nodes -> 1..MaxWin] /\ win[1] = 1
  /\ total_backwards = NoMemo
  /\ force_delay = [n \in Nodes |-> None] /\ data_delay = TRUE

\* n.set_mask(m): m is a factor built before n, or None (0)
SetMask(n, m) ==
  /\ kind[n] = "custom"
  /\ mask' = [mask EXCEPT ![n] = m]
  /\ total_backwards' = [total_backwards EXCEPT ![n] = None]
  /\ answer' = [op |-> "set_mask", node |-> n, val |-> m]
  /\ UNCHANGED <<kind, inputs, keep_cache, heap, win, force_delay, data_delay, arrays,
                 lanes, run, calls, use_lane, kernel_count, log, hist>>

\* n.get_total_backwards_()
GetTotalBackwards(n) ==
  /\ total_backwards' = get_total_backwards_(total_backwards, mask, n).tb
  /\ answer' = [op |-> "backwards", node |-> n,
                val |-> get_total_backwards_(total_backwards, mask, n).val]
  /\ UNCHANGED <<graph, heap, win, force_delay, data_delay, arrays,
                 lanes, run, calls, use_lane, kernel_count, log, hist>>

BackwardsNext ==
  \/ \E n \in Nodes : \E m \in 0..(n - 1) : SetMask(n, m)
  \/ \E n \in Nodes : GetTotalBackwards(n)

BackwardsSpec == BackwardsInit /\ [][BackwardsNext]_vars

\* ------------------------------------------------------------------ C14, C15, C16

AskedBackwards == answer # None /\ answer.op = "backwards" /\ kind[answer.node] = "custom"
LargestOf(S) == IF S = {} THEN 0 ELSE CHOOSE x \in S : \A y \in S : y <= x
\* what get_total_backwards_ of node u returns when asked now
Now(u) == get_total_backwards_(total_backwards, mask, u).val
UpstreamValues(n) == {Now(inputs[n][i]) : i \in {j \in 1..Len(inputs[n]) : IsFactor(inputs[n][j])}}
MaskValues(n) == IF mask[n] # 0 THEN {Now(mask[n])} ELSE {}
\* what get_total_backwards_ of node n returns with no memo anywhere
Fresh(n) == get_total_backwards_(NoMemo, mask, n).val

\* C14: get_total_backwards_ of a node is the largest total-backwards value of
\* its upstream nodes and its mask node (0 if none), plus win - 1: the node's
\* win - 1 is added on top of the mask's requirement too.
C14_WindowOverMask ==
  AskedBackwards =>
    answer.val = LargestOf(UpstreamValues(answer.node) \cup MaskValues(answer.node))
                   + win[answer.node] - 1

\* C15: get_total_backwards_ of a node is at least the largest value of its
\* upstream nodes plus win - 1, and equals it when the node has no mask.
C15_AtLeastUpstreams ==
  AskedBackwards =>
    /\ answer.val >= LargestOf(UpstreamValues(answer.node)) + win[answer.node] - 1
    /\ mask[answer.node] = 0 =>
         answer.val = LargestOf(UpstreamValues(answer.node)) + win[answer.node] - 1

\* C16: after any sequence of set_mask and get_total_backwards_ calls,
\* get_total_backwards_ of every node returns the value the current graph
\* defines, never one memoized before a mask was changed.
C16_MemoFollowsMasks ==
  AskedBackwards => answer.val = Fresh(answer.node)

\* ------------------------------------------------------------------ should_delay

\* self._force_delay is not None
ForcedNever(fd) == FALSE
Forced(fd) == fd # None

\* ColumnDataFactor.should_delay and CustomFactor.should_delay
RECURSIVE should_delay(_, _)
should_delay(fd, n) ==
  IF kind[n] = "data" THEN data_delay
  ELSE IF Forced(fd[n]) THEN fd[n][1]
  ELSE \E i \in 1..Len(inputs[n]) : IsFactor(inputs[n][i]) /\ should_delay(fd, inputs[n][i])

DelayInit ==
  /\ InitLifecycle /\ NoLayout
  /\ keep_cache = [n \in Nodes |-> FALSE] /\ ~use_lane
  /\ win = [n \in Nodes |-> 1] /\ total_backwards = NoMemo
  /\ force_delay = [n \in Nodes |-> None]
  /\ data_delay \in BOOLEAN

\* n.set_delay(d): d is None, True or False
SetDelay(n, d) ==
  /\ kind[n] = "custom"
  /\ force_delay' = [force_delay EXCEPT ![n] = d]
  /\ answer' = [op |-> "set_delay", node |-> n, val |-> d]
  /\ UNCHANGED <<graph, heap, win, total_backwards, data_delay, arrays,
                 lanes, run, calls, use_lane, kernel_count, log, hist>>

\* n.should_delay()
ShouldDelay(n) ==
  /\ answer' = [op |-> "should_delay", node |-> n, val |-> should_delay(force_delay, n)]
  /\ UNCHANGED <<graph, heap, conf, arrays, lanes, run, calls, use_lane, kernel_count, log, hist>>

DelayNext ==
  \/ \E n \in Nodes : \E d \in {None, Some(TRUE), Some(FALSE)} : SetDelay(n, d)
  \/ \E n \in Nodes : ShouldDelay(n)

DelaySpec == DelayInit /\ [][DelayNext]_vars

\* ------------------------------------------------------------------ C17

Overridden(n) == kind[n] = "custom" /\ force_delay[n] # None
UpstreamNodes(n) == {inputs[n][i] : i \in {j \in 1..Len(inputs[n]) : IsFactor(inputs[n][j])}}
\* the nodes reached from S through inputs in at most k steps, not looking
\* behind a node with an override
RECURSIVE InSight(_, _)
InSight(S, k) ==
  IF k = 0 THEN S
  ELSE InSight(S \cup UNION {UpstreamNodes(v) : v \in {u \in S : ~Overridden(u)}}, k - 1)
\* what a node in sight contributes by itself
Contributes(v) ==
  IF kind[v] = "data" THEN data_delay
  ELSE IF Overridden(v) THEN force_delay[v][1]
  ELSE FALSE

\* C17: should_delay of a node with an override returns the override whatever
\* its upstream nodes are; without one it is the OR over the nodes reachable
\* from it through inputs, an overridden node contributing its override and
\* hiding the nodes behind it; set_delay(None) restores this rule.
C17_DelayPolicy ==
  (answer # None /\ answer.op = "should_delay") =>
    /\ Overridden(answer.node) => answer.val = force_delay[answer.node][1]
    /\ ~Overridden(answer.node) =>
         (answer.val <=> \E v \in InSight({answer.node}, Cardinality(Nodes)) : Contributes(v))

\* node 4 of Diamond, no override: input 3 forced off hides nothing of input 2,
\* input 2 forced on although the data source is not delayed
C17_Witness ==
  /\ answer # None /\ answer.op = "should_delay" /\ answer.node = 4 /\ answer.val
  /\ inputs = Diamond.inputs /\ ~data_delay
  /\ force_delay[4] = None /\ force_delay[3] = Some(FALSE) /\ force_delay[2] = Some(TRUE)

\* ------------------------------------------------------------------ construction

\* a node kind: its class attributes win and _min_win
Kinds == [win : 0..(MaxWin + 1), min_win : {None} \cup {Some(k) : k \in 1..MaxWin}]
\* the windows a caller may pass
Windows == {Some(w) : w \in (-1)..(MaxWin + 1)}

\* `if win:`
Truthy(w) == w # None /\ w[1] # 0
\* self._min_win or 1
MinWinOrOne(cls) == IF Truthy(cls.min_win) THEN cls.min_win[1] ELSE 1
\* self.win after `if win: self.win = win`
OwnWin(cls, w) == IF Truthy(w) THEN w[1] ELSE cls.win

\* CustomFactor.__init__(win, inputs)
CustomFactor(cls, w) ==
  IF ~(OwnWin(cls, w) >= MinWinOrOne(cls)) THEN Fail("ValueError")
  ELSE Done(OwnWin(cls, w))

\* CustomFactor.sequential(*args): first is args[0] when it is an int, else None
sequential(cls, first) ==
  IF first # None
  THEN CustomFactor(cls, IF cls.min_win # None
                         THEN Some(Larger(first[1], cls.min_win[1]))
                         ELSE first)
  ELSE CustomFactor(cls, None)

ConstructInit == Unprepared /\ NoLayout

\* cls(win, inputs) and cls(inputs=...)
NewFactor(cls, w) ==
  /\ answer' = Call("init", w, cls, CustomFactor(cls, w))
  /\ UNCHANGED <<graph, heap, conf, arrays, lanes, run, calls, use_lane, kernel_count, log, hist>>

\* cls.sequential(win, ...) and cls.sequential(factor, ...)
Sequential(cls, first) ==
  /\ answer' = Call("sequential", first, cls, sequential(cls, first))
  /\ UNCHANGED <<graph, heap, conf, arrays, lanes, run, calls, use_lane, kernel_count, log, hist>>

ConstructNext ==
  \/ \E cls \in Kinds : \E w \in Windows \cup {None} : NewFactor(cls, w)
  \/ \E cls \in Kinds : \E first \in Windows \cup {None} : Sequential(cls, first)

ConstructSpec == ConstructInit /\ [][ConstructNext]_vars

\* ------------------------------------------------------------------ C18

Constructing == answer # None /\ answer.op \in {"init", "sequential"}
\* the window the caller asked for: the one passed, else the class default
AskedWin == IF answer.arg # None THEN answer.arg[1] ELSE answer.src.win
\* max(1, _min_win)
LeastWin == IF answer.src.min_win # None THEN Larger(1, answer.src.min_win[1]) ELSE 1

\* C18: constructing a node with a window below 1 or below the kind's declared
\* minimum is rejected with an error on every construction path (explicit win,
\* class default, sequential); so no constructed node has win < max(1, _min_win).
C18_SmallWindowRejected ==
  Constructing =>
    /\ AskedWin < LeastWin => ~answer.ok
    /\ answer.ok => answer.val >= LeastWin

\* ------------------------------------------------------------------ C21

\* C21: revert fails with a shape error, returning no data, whenever the
\* array's leading two dimensions differ from the layout's (groups, width); an
\* array whose leading two dimensions match but which has a trailing dimension
\* is rejected too, with the message telling the caller to slice one output.
C21_RevertShapeError ==
  (answer # None /\ answer.op = "revert_array") =>
    /\ SubSeq(TensorShape(answer.arg), 1, 2) # <<layout.groups, layout.width>> =>
         /\ ~answer.ok
         /\ answer.val = "ValueError: shape must be same as input"
    /\ (SubSeq(TensorShape(answer.arg), 1, 2) = <<layout.groups, layout.width>>
          /\ Len(TensorShape(answer.arg)) = 3) =>
         /\ ~answer.ok
         /\ answer.val = "ValueError: multiple return values, use slice"

\* a 3-D array with matching leading dimensions was rejected
C21_Witness ==
  /\ answer # None /\ answer.op = "revert_array" /\ ~answer.ok
  /\ TensorShape(answer.arg) = <<layout.groups, layout.width, 2>>
  /\ layout.groups > 1 /\ layout.width > 1

\* ------------------------------------------------------------------ Rolling

MaxSteps == 4       \* time steps of a grouped array, and largest rolling window

\* the grouped arrays explored: group 1 holds the series, group 2 its reverse
Reversed(row) == [t \in 1..Len(row) |-> row[Len(row) + 1 - t]]
GroupedRows(row, n) == Tensor("float", [g \in 1..n |-> IF g % 2 = 1 THEN row ELSE Reversed(row)])
Series(n) ==
  {[t \in 1..n |-> <<10>>], [t \in 1..n |-> <<10 + t>>]}
    \cup {[t \in 1..n |-> IF t = p THEN NaN ELSE <<10 + t>>] : p \in {1, n}}
\* multipliers: 1 before a split at p and 2 from it on, or missing at p
Multipliers(n) ==
  {[t \in 1..n |-> IF t >= p THEN <<2>> ELSE <<1>>] : p \in 1..n}
    \cup {[t \in 1..n |-> IF t = p THEN NaN ELSE IF t > p THEN <<2>> ELSE <<1>>] : p \in 1..n}
\* values of Rolling._split_multi: the default, and two that make chunks narrow
SplitMultis == {1, 67108864, 268435456, 357913941}

RollingInit == Unprepared /\ NoLayout

\* Rolling(x, win, adjustment)
NewRolling(x, w, a, multi) ==
  /\ answer = None
  /\ answer' = Call("rolling", multi, [x |-> x, adjustment |-> a],
                    Done(RollingWith(x, w, a, multi)))
  /\ UNCHANGED <<graph, heap, conf, arrays, lanes, run, calls, use_lane, kernel_count, log, hist>>

\* rolling.adjust(s, e)
Adjust(s, e) ==
  /\ answer # None /\ answer.op = "rolling"
  /\ answer' = Call("adjust", <<s, e>>,
                    [x |-> answer.src.x, adjustment |-> answer.src.adjustment,
                     rolling |-> answer.val],
                    Done(adjust(answer.val, s, e)))
  /\ UNCHANGED <<graph, heap, conf, arrays, lanes, run, calls, use_lane, kernel_count, log, hist>>

\* rolling.agg(op)
Agg(op) ==
  /\ answer # None /\ answer.op = "rolling"
  /\ answer' = Call("agg", op,
                    [x |-> answer.src.x, adjustment |-> answer.src.adjustment,
                     rolling |-> answer.val],
                    Done(agg(answer.val, op)))
  /\ UNCHANGED <<graph, heap, conf, arrays, lanes, run, calls, use_lane, kernel_count, log, hist>>

RollingNext ==
  \/ Consume
  \/ \E n \in 1..MaxSteps, groups \in 1..MaxAssets, w \in 1..MaxSteps, multi \in SplitMultis :
       \E row \in Series(n), a \in Multipliers(n) \cup {None} :
         NewRolling(GroupedRows(row, groups), w,
                    IF a = None THEN None ELSE GroupedRows(a, groups), multi)
  \/ \E s \in 0..(MaxSteps - 1), e \in 1..MaxSteps :
       s < e /\ answer # None /\ answer.op = "rolling" /\ e <= Len(answer.val.values[1])
         /\ Adjust(s, e)
  \/ \E op \in {"last_nonnan", "sum", "mean"} : Agg(op)

RollingSpec == RollingInit /\ [][RollingNext]_vars

\* ------------------------------------------------------------------ C22, C23, C24, C27

Rolled == answer # None /\ answer.op = "rolling"
AdjustedSlice == answer # None /\ answer.op = "adjust" /\ answer.src.adjustment # None
Aggregated == answer # None /\ answer.op = "agg"
\* the value of a grouped series at (1-based) time u of group g, missing before time 1
AtTime(series, g, u) == IF u >= 1 THEN series.v[g][u] ELSE NaN
Steps == Len(answer.src.x.v[1])
\* the last non-missing adjustment among the times of the window ending at time t
LastKnown(g, t, w) ==
  IF \A u \in (t - w + 1)..t : IsNaN(AtTime(answer.src.adjustment, g, u)) THEN NaN
  ELSE AtTime(answer.src.adjustment, g,
              CHOOSE u \in (t - w + 1)..t :
                /\ ~IsNaN(AtTime(answer.src.adjustment, g, u))
                /\ \A q \in (u + 1)..t : IsNaN(AtTime(answer.src.adjustment, g, q)))

\* C22: the rolling view of a grouped array with T time steps and window w has
\* shape groups x T x w; slot k of the window at time t holds the value of time
\* t - (w - 1) + k (0-based) when that time is not negative and is missing
\* otherwise, so for t < w - 1 exactly the first w - 1 - t slots are padding.
C22_RollingView ==
  Rolled =>
    /\ Len(answer.val.values) = Len(answer.src.x.v)
    /\ \A g \in 1..Len(answer.src.x.v) :
         /\ Len(answer.val.values[g]) = Steps
         /\ \A t \in 1..Steps :
              /\ Len(answer.val.values[g][t]) = answer.val.win
              /\ \A k \in 1..answer.val.win :
                   answer.val.values[g][t][k] = AtTime(answer.src.x, g, t - answer.val.win + k)
              /\ (\A u \in 1..Steps : ~IsNaN(answer.src.x.v[g][u])) =>
                   {k \in 1..answer.val.win : IsNaN(answer.val.values[g][t][k])}
                     = 1..(answer.val.win - t)

\* a view whose first windows are partly padding and whose last are not
C22_Witness ==
  /\ Rolled /\ answer.val.win = 3 /\ Steps = 4 /\ Len(answer.src.x.v) = 2
  /\ answer.val.values[1][1] = <<NaN, NaN, <<11>>>>
  /\ answer.val.values[1][4] = <<<<12>>, <<13>>, <<14>>>>
  /\ answer.val.values[2][2] = <<NaN, <<14>>, <<13>>>>

\* C23: with an adjustment series, every slot of the window Rolling.adjust
\* returns holds raw value * adjustment / adjustment_last, adjustment_last
\* being the last non-missing adjustment inside that same window.
C23_AdjustedWindow ==
  AdjustedSlice =>
    \A g \in 1..Len(answer.src.x.v) :
      \A t \in 1..(answer.arg[2] - answer.arg[1]) :
        \A k \in 1..answer.src.rolling.win :
          answer.val[g][t][k] =
            Div(Mul(AtTime(answer.src.x, g,
                           answer.arg[1] + t - answer.src.rolling.win + k),
                    AtTime(answer.src.adjustment, g,
                           answer.arg[1] + t - answer.src.rolling.win + k)),
                LastKnown(g, answer.arg[1] + t, answer.src.rolling.win))

\* prices [10,10,10,10], multipliers [1,1,1,2], the window of length 4 ending
\* at index 3: [5,5,5,10], mean 6.25
C23_Witness ==
  /\ AdjustedSlice /\ answer.arg = <<3, 4>> /\ answer.src.rolling.win = 4
  /\ answer.src.x.v[1] = <<<<10>>, <<10>>, <<10>>, <<10>>>>
  /\ answer.src.adjustment.v[1] = <<<<1>>, <<1>>, <<1>>, <<2>>>>
  /\ answer.val[1][1] = <<<<5>>, <<5>>, <<5>>, <<10>>>>
  /\ Reduce("mean", answer.val[1][1]) = <<25, 4>>

\* C24 (as the code has it): with an adjustment series, adjust(start, end)
\* returns the windows start..end-1 of the raw values multiplied elementwise by
\* the ratio adjustment / adjustment_last.
C24_MultipliedByRatio ==
  AdjustedSlice =>
    \A g \in 1..Len(answer.src.rolling.values) :
      /\ Len(answer.val[g]) = answer.arg[2] - answer.arg[1]
      /\ \A t \in 1..(answer.arg[2] - answer.arg[1]) :
           \A k \in 1..answer.src.rolling.win :
             answer.val[g][t][k] =
               Mul(answer.src.rolling.values[g][answer.arg[1] + t][k],
                   Div(answer.src.rolling.adjustments[g][answer.arg[1] + t][k],
                       answer.src.rolling.adjustment_last[g][answer.arg[1] + t]))

\* C24 as stated: adjust(start, end) returns the windowed raw values divided
\* elementwise by the ratio adjustment / adjustment_last.
C24_DividedByRatio ==
  AdjustedSlice =>
    \A g \in 1..Len(answer.src.rolling.values) :
      \A t \in 1..(answer.arg[2] - answer.arg[1]) :
        \A k \in 1..answer.src.rolling.win :
          answer.val[g][t][k] =
            Div(answer.src.rolling.values[g][answer.arg[1] + t][k],
                Div(answer.src.rolling.adjustments[g][answer.arg[1] + t][k],
                    answer.src.rolling.adjustment_last[g][answer.arg[1] + t]))

\* an inner slice with a slot whose adjustment differs from the window's last
C24_Witness ==
  /\ AdjustedSlice /\ answer.arg = <<1, 3>> /\ answer.src.rolling.win = 2
  /\ \E t \in 1..2 :
       /\ answer.src.rolling.adjustments[1][1 + t] = <<<<1>>, <<2>>>>
       /\ answer.src.rolling.values[1][1 + t][1] = <<12>>
       /\ answer.val[1][t][1] = <<6>>

\* C27: the chunks Rolling.agg uses are contiguous, non-empty, non-overlapping,
\* increasing and cover exactly [0, T), whatever the memory estimate; so for a
\* reduction over the window axis agg(op) equals op applied to the whole
\* adjusted window: the same T columns in the same order.
C27_ChunksCoverTime ==
  Aggregated =>
    /\ Len(answer.src.rolling.split) >= 1
    /\ answer.src.rolling.split[1][1] = 0
    /\ answer.src.rolling.split[Len(answer.src.rolling.split)][2] = Steps
    /\ \A i \in 1..Len(answer.src.rolling.split) :
         /\ answer.src.rolling.split[i][1] < answer.src.rolling.split[i][2]
         /\ i > 1 => answer.src.rolling.split[i][1] = answer.src.rolling.split[i - 1][2]
    /\ \A g \in 1..Len(answer.val) : Len(answer.val[g]) = Steps
    /\ answer.val = ApplyOp(answer.arg, adjust(answer.src.rolling, 0, Steps))

\* an aggregate over uneven chunks of an adjusted view
C27_Witness ==
  /\ Aggregated /\ answer.src.adjustment # None /\ answer.arg = "mean"
  /\ answer.src.rolling.split = <<<<0, 3>>, <<3, 4>>>>
  /\ \E t \in 1..Steps : ~IsNaN(answer.val[1][t])

\* ------------------------------------------------------------------ C26

\* C26: in the padded index table, rows are in ascending key order; within a
\* row the original row indices are left-aligned and strictly increasing from
\* left to right, and every padding slot is to the right of the valid ones.
C26_TableOrder ==
  layout # None =>
    /\ \A g \in 1..layout.groups : RowAt(<<g, 1>>) # -1
    /\ \A g, h \in 1..layout.groups :
         g < h => keys[RowAt(<<g, 1>>) + 1] < keys[RowAt(<<h, 1>>) + 1]
    /\ \A g \in 1..layout.groups : \A c, d \in 1..layout.width :
         (c < d /\ RowAt(<<g, d>>) # -1) =>
           (RowAt(<<g, c>>) # -1 /\ RowAt(<<g, c>>) < RowAt(<<g, d>>))

\* keys (2, 0, 2): the row of key 0 comes first and is padded, the row of key 2
\* holds rows 0 and 2 in that order
C26_Witness ==
  /\ layout # None /\ keys = <<2, 0, 2>>
  /\ layout.sorted_indices = <<<<1, -1>>, <<0, 2>>>>

\* ------------------------------------------------------------------ C28, C30

\* C28: the reference count of a factor is never negative, and a compute_ call
\* that raises the reference-count error leaves the count as it found it.
C28_RefCountNeverNegative ==
  /\ \A n \in Custom : ref_count[n] >= 0
  /\ \A i \in Events("raise") :
       log[i].tag = "refcount" => log[i].ref = log[i - 1].ref /\ log[i].ref >= 0

\* C30: a compute_ call that is given a stream and finds a cached result finds
\* the stream that produced it in _cache_stream, whatever mix of runs with and
\* without streams and of kept caches produced the cache; cache and stream are
\* empty together.
C30_CachedHasLane ==
  /\ \A i \in Events("compute") :
       (log[i].lane # None /\ log[i].val # None /\ log[i].ref >= 1) =>
         ~(log[i + 1].op = "raise" /\ log[i + 1].tag = "nostream")
  /\ use_lane => \A n \in Custom : cache[n] # None => cache_stream[n] # None

\* ------------------------------------------------------------------ C25

CallEnds == {"ret", "raise"}
\* the compute_ calls that ran to the end without taking the cached branch
FreshCalls == {i \in Events("compute") : log[EndOf(log, i, CallEnds)].tag = "fresh"}
\* the compute_ calls node log[i].node made during the call entered at event i
Made(i) ==
  {m \in (i + 1)..(EndOf(log, i, CallEnds) - 1) :
     log[m].op = "compute" /\ log[m].caller = log[i].node}
NthMade(i, r) == CHOOSE m \in Made(i) : Cardinality({x \in Made(i) : x < m}) = r - 1
\* the compute() calls of the node during the call entered at event i
Kernels(i) ==
  {k \in (i + 1)..(EndOf(log, i, CallEnds) - 1) :
     log[k].op = "kernel" /\ log[k].node = log[i].node}
\* what the call made for input position p returned
FactorRank(n, p) == Cardinality({q \in 1..p : IsFactor(inputs[n][q])})
InputOut(i, p) ==
  log[EndOf(log, NthMade(i, Len(MaskFactor(log[i].node)) + FactorRank(log[i].node, p)),
            CallEnds)].val
MaskOut(i) ==
  IF mask[log[i].node] # 0 THEN log[EndOf(log, NthMade(i, 1), CallEnds)].val ELSE None

\* C25: a compute_ call that does not take the cached branch calls compute_ on
\* the mask first (if there is one), then on every upstream factor in the order
\* of `inputs`, then compute() exactly once, with the formatted upstream outputs
\* at their positions and every other operand as it is; called without a
\* stream, it opens no stream and issues no wait anywhere below it.
C25_ComputeOrder ==
  \A i \in FreshCalls :
    /\ Callees(log, i, CallEnds, "compute")
         = MaskFactor(log[i].node) \o UpstreamFactors(log[i].node)
    /\ Cardinality(Kernels(i)) = 1
    /\ \A k \in Kernels(i) :
         /\ \A m \in Made(i) : EndOf(log, m, CallEnds) < k
         /\ Len(log[k].args) = Len(inputs[log[i].node])
         /\ \A p \in 1..Len(inputs[log[i].node]) :
              log[k].args[p] =
                IF IsFactor(inputs[log[i].node][p])
                THEN Formatted(InputOut(i, p), MaskOut(i))
                ELSE Operand(inputs[log[i].node][p])
    /\ log[i].lane = None =>
         \A m \in i..EndOf(log, i, CallEnds) :
           log[m].op \notin {"lane", "wait"} /\ log[m].lane = None

\* a masked factor computed without a stream: mask, then input, then compute()
C25_Witness ==
  \E i \in FreshCalls :
    /\ log[i].node = 4 /\ mask[4] = 2 /\ log[i].lane = None
    /\ Callees(log, i, CallEnds, "compute") = <<2, 3>>
    /\ \E k \in Kernels(i) :
         log[k].args = <<Formatted(<<3, run, 1>>, <<2, run, 1>>)>>

\* ------------------------------------------------------------------ runs of a keep-cache factor
MaxKeepCalls == 5   \* engine calls in all, enough for a run, its clean-up and a second run

\* factor 3 was built with keep_cache()
KeepInit == Init /\ keep_cache[3]

KeepPreCompute(r) ==
  /\ calls < MaxKeepCalls
  /\ Commit(pre_compute_(Heap, r, Engine))
  /\ hist' = Observe(hist, log', "pre", r, FALSE)
  /\ calls' = calls + 1
  /\ UNCHANGED <<graph, conf, arrays, answer, run, use_lane>>

KeepCompute(r) ==
  /\ calls < MaxKeepCalls
  /\ Commit([EngineCompute(r) EXCEPT !.lanes = Idle])
  /\ hist' = Observe(hist, log', "compute", r, FALSE)
  /\ calls' = calls + 1
  /\ UNCHANGED <<graph, conf, arrays, answer, run, use_lane>>

KeepCleanUp(r, force) ==
  /\ calls < MaxKeepCalls
  /\ Commit(clean_up_(Heap, r, force, Engine))
  /\ hist' = Observe(hist, log', "cleanup", r, force)
  /\ calls' = calls + 1
  /\ UNCHANGED <<graph, conf, arrays, answer, run, use_lane>>

KeepNext ==
  \/ \E r \in Roots : KeepPreCompute(r)
  \/ \E r \in Roots : KeepCompute(r)
  \/ \E r \in Roots : \E force \in BOOLEAN : KeepCleanUp(r, force)
  \/ NewRun

KeepSpec == KeepInit /\ [][KeepNext]_vars

\* ------------------------------------------------------------------ C29

\* factors that start this run holding an earlier run's result with every
\* count at zero: computed, then cleaned up without force
KeptFromEarlier ==
  {n \in Custom : keep_cache[n] /\ n \in hist.stale /\ hist.zero_start /\ run > 1}
\* the engine has called compute_ on every root as often as pre_compute_
Settled ==
  /\ \E r \in Roots : hist.root_pre[r] >= 1
  /\ \A r \in Roots : hist.root_comp[r] = hist.root_pre[r]

\* C29: a keep-cache factor computed in one run and cleaned up without force
\* hands that result to every compute_ call of a later run without calling
\* compute() again; and once the engine has computed every root it prepared in
\* that run, every factor has reference count zero, the factor's inputs and
\* mask included, except the keep-cache factor's own extra reference.
C29_KeptAcrossRuns ==
  (KeptFromEarlier # {} /\ hist.two_phase /\ ~hist.cleanups /\ ~hist.unmatched) =>
    /\ \A n \in KeptFromEarlier :
         /\ kernel_count[n] = 0
         /\ cache[n] # None /\ cache[n][2] < run
         /\ hist.rets[n] \subseteq {cache[n]}
         /\ hist.n_ret[n] = hist.n_comp[n]
    /\ Settled =>
         \A m \in Custom :
           ref_count[m] = IF keep_cache[m] /\ hist.n_pre[m] >= 1 THEN 1 ELSE 0

====
